---- MODULE Spec2Model ----
(***************************************************************************)
(* chrome-mcp-wrapper: the session registry (SessionManager), its          *)
(* parallel fan-out (runParallel, runParallelWithSessions) and the dialog  *)
(* monitor (DialogDetector), as state machines.                            *)
(*                                                                         *)
(* JavaScript runs one job at a time: a step of this model is one job of   *)
(* the event loop, from the point a caller or a continuation is entered to *)
(* the next suspension (await).                                            *)
(***************************************************************************)
EXTENDS Integers, Sequences, FiniteSets, TLC

\* ------------------------------------------------------------------ bounds
MaxTasks == 2      \* tasks handed to one runParallel* call
MaxCalls == 2      \* runParallel* calls in one behaviour
MaxWork == 4       \* the caller's work in one behaviour: a direct operation
                   \* counts 1, a runParallel* call counts 2

\* ------------------------------------------------------------------ values
NULL == 0                          \* the null reference (objects are counted from 1)
NoTab == 0                         \* ChromeSession.tabId before setTabId: null
NoName == ""                       \* a falsy name: omitted, undefined or ''
UserNames == {"A", "parallel-0", "session-0"}
TabIds == {111, 222}
CallIds == 1..MaxCalls

NoError == [type |-> "none"]
DuplicateError(sessionId) == [type |-> "Duplicate", name |-> sessionId]
ArityError == [type |-> "ArityMismatch"]
TaskError(k) == [type |-> "Task", task |-> k]    \* what tasks[k-1] throws
\* what tasks[k-1] returns: a value of its own and the tab handle it read
TaskValue(k, tabId) == [type |-> "Value", task |-> k, tabId |-> tabId]
NoValue == [type |-> "hole"]

VARIABLES
  sessions,        \* SessionManager.sessions: name -> object (an index of heap)
  sessionCounter,  \* SessionManager.sessionCounter
  heap,            \* the ChromeSession objects that are still referenced
  allocated,       \* how many ChromeSession objects were constructed
  calls,           \* the runParallel* invocations: their promises and tasks
  work,            \* the work the caller has issued so far
  lastOp           \* what the last operation handed back to its caller

regVars == <<sessions, sessionCounter, heap, allocated, calls, work, lastOp>>

VARIABLES
  screenshotInterval,   \* DialogDetector.screenshotInterval
  diffThreshold,        \* DialogDetector.diffThreshold
  monitoring,           \* DialogDetector.monitoring
  monitorTimer,         \* DialogDetector.monitorTimer
  previousScreenshot,   \* DialogDetector.previousScreenshot
  detectionCallback,    \* DialogDetector.detectionCallback
  timers,               \* the intervals that are scheduled: timer -> its period
  timerCount,           \* how many timers setInterval has handed out
  starts,               \* how many startMonitoring calls are suspended in takeScreenshot
  checks,               \* the check cycles suspended in takeScreenshot or saveScreenshot
  monOp                 \* what the last step of the monitor did for its caller

monVars ==
  <<screenshotInterval, diffThreshold, monitoring, monitorTimer, previousScreenshot,
    detectionCallback, timers, timerCount, starts, checks, monOp>>

VARIABLES
  client,        \* ChromeMCPClient.client: the Client object, or null
  isConnected,   \* ChromeMCPClient.isConnected
  clientCount,   \* how many Client objects were constructed
  pending,       \* the callTool and close invocations that are suspended
  clientOp       \* what the last step of the client handed back to its caller

cliVars == <<client, isConnected, clientCount, pending, clientOp>>

\* The registry and the objects it refers to, as one value that the
\* operations below thread through their statements.
Reg ==
  [sessions |-> sessions, sessionCounter |-> sessionCounter, heap |-> heap,
   allocated |-> allocated]

EmptyMap == [x \in {} |-> NULL]
MapRemove(m, k) == [x \in DOMAIN m \ {k} |-> m[x]]
MapPut(m, k, v) == [x \in DOMAIN m \cup {k} |-> IF x = k THEN v ELSE m[x]]

\* ------------------------------------------------------- ChromeSession.ts
NewChromeSession(sessionId, creator) ==
  [sessionId |-> sessionId, tabId |-> NoTab, creator |-> creator]

getSessionId(R, obj) == R.heap[obj].sessionId
getTabId(R, obj) == R.heap[obj].tabId
setTabId(R, obj, tabId) == [R EXCEPT !.heap[obj].tabId = tabId]

\* ------------------------------------------------------ SessionManager.ts
\* `session-${this.sessionCounter++}`
AutoName(counter) == "session-" \o ToString(counter)
\* `parallel-${index}`, index counted from 0
ParallelName(index) == "parallel-" \o ToString(index)

\* (a slip: no check for a name that is already registered)
createSessionUnchecked(R, name, creator) ==
  LET sessionId == IF name # NoName THEN name ELSE AutoName(R.sessionCounter)
      counter == IF name # NoName THEN R.sessionCounter ELSE R.sessionCounter + 1
      obj == R.allocated + 1
  IN [reg |-> [R EXCEPT !.sessionCounter = counter,
                        !.heap = MapPut(R.heap, obj, NewChromeSession(sessionId, creator)),
                        !.allocated = obj,
                        !.sessions = MapPut(R.sessions, sessionId, obj)],
      session |-> obj, err |-> NoError]

\* createSession(name?): the registry after the call, the object returned
\* (or NULL) and the error thrown (or NoError).
\* (a slip: the counter moves on only when the session is registered)
createSessionCountsOnSuccess(R, name, creator) ==
  LET sessionId == IF name # NoName THEN name ELSE AutoName(R.sessionCounter)
      counter == IF name # NoName THEN R.sessionCounter ELSE R.sessionCounter + 1
      obj == R.allocated + 1
  IN IF sessionId \in DOMAIN R.sessions
     THEN [reg |-> R, session |-> NULL, err |-> DuplicateError(sessionId)]
     ELSE [reg |-> [R EXCEPT !.sessionCounter = counter,
                             !.heap = MapPut(R.heap, obj, NewChromeSession(sessionId, creator)),
                             !.allocated = obj,
                             !.sessions = MapPut(R.sessions, sessionId, obj)],
           session |-> obj, err |-> NoError]

\* createSession registering the session under the name it was given
createSessionKeyedByName(R, name, creator) ==
  LET sessionId == IF name # NoName THEN name ELSE AutoName(R.sessionCounter)
      counter == IF name # NoName THEN R.sessionCounter ELSE R.sessionCounter + 1
      obj == R.allocated + 1
  IN IF name \in DOMAIN R.sessions
     THEN [reg |-> [R EXCEPT !.sessionCounter = counter], session |-> NULL,
           err |-> DuplicateError(sessionId)]
     ELSE [reg |-> [R EXCEPT !.sessionCounter = counter,
                             !.heap = MapPut(R.heap, obj, NewChromeSession(sessionId, creator)),
                             !.allocated = obj,
                             !.sessions = MapPut(R.sessions, name, obj)],
           session |-> obj, err |-> NoError]

createSession(R, name, creator) ==
  LET sessionId == IF name # NoName THEN name ELSE AutoName(R.sessionCounter)
      counter == IF name # NoName THEN R.sessionCounter ELSE R.sessionCounter + 1
      R1 == [R EXCEPT !.sessionCounter = counter]
      obj == R.allocated + 1
  IN IF sessionId \in DOMAIN R.sessions
     THEN [reg |-> R1, session |-> NULL, err |-> DuplicateError(sessionId)]
     ELSE [reg |-> [R1 EXCEPT !.heap = MapPut(R.heap, obj, NewChromeSession(sessionId, creator)),
                              !.allocated = obj,
                              !.sessions = MapPut(R.sessions, sessionId, obj)],
           session |-> obj, err |-> NoError]

getSession(R, name) == IF name \in DOMAIN R.sessions THEN R.sessions[name] ELSE NULL

\* removeSession that hands the counter's last value back
removeSessionReusesCounter(R, name) ==
  [R EXCEPT !.sessions = MapRemove(R.sessions, name),
            !.sessionCounter = IF name \in DOMAIN R.sessions /\ @ > 0 THEN @ - 1 ELSE @]

removeSession(R, name) == [R EXCEPT !.sessions = MapRemove(R.sessions, name)]

getSessionCount(R) == Cardinality(DOMAIN R.sessions)

\* clearAll that leaves the counter
clearAllKeepsCounter(R) == [R EXCEPT !.sessions = EmptyMap]

clearAll(R) == [R EXCEPT !.sessions = EmptyMap, !.sessionCounter = 0]

\* --------------------------------------------------------------- Promise.all
\* Promise.all over n promises: pending until every one is fulfilled (the
\* values are kept by index) or until the first one is rejected.
PromiseAllNew(n) ==
  [state |-> IF n = 0 THEN "fulfilled" ELSE "pending",
   values |-> [k \in 1..n |-> NoValue], remaining |-> n, reason |-> NoError]

\* (a slip: the values are kept in the order in which they arrive)
PromiseAllFulfilInArrivalOrder(p, k, v) ==
  IF p.state # "pending" THEN p
  ELSE LET q == [p EXCEPT !.values[Len(p.values) - p.remaining + 1] = v, !.remaining = @ - 1]
       IN IF q.remaining = 0 THEN [q EXCEPT !.state = "fulfilled"] ELSE q

PromiseAllFulfil(p, k, v) ==
  IF p.state # "pending" THEN p
  ELSE LET q == [p EXCEPT !.values[k] = v, !.remaining = @ - 1]
       IN IF q.remaining = 0 THEN [q EXCEPT !.state = "fulfilled"] ELSE q

PromiseAllReject(p, err) ==
  IF p.state # "pending" THEN p ELSE [p EXCEPT !.state = "rejected", !.reason = err]

\* The promises that are already rejected when Promise.all subscribes to
\* them react in index order.
RECURSIVE PromiseAllSubscribe(_, _, _)
PromiseAllSubscribe(p, tasks, k) ==
  IF k > Len(tasks) THEN p
  ELSE PromiseAllSubscribe(
         IF tasks[k].st = "rejected" THEN PromiseAllReject(p, tasks[k].ret) ELSE p,
         tasks, k + 1)

\* ------------------------------------------------- runParallel, the fan-out
NotStarted == [st |-> "notStarted", session |-> NULL, ret |-> NoValue]
Running(obj) == [st |-> "running", session |-> obj, ret |-> NoValue]
Rejected(obj, err) == [st |-> "rejected", session |-> obj, ret |-> err]
Fulfilled(obj, v) == [st |-> "fulfilled", session |-> obj, ret |-> v]

IdleCall ==
  [kind |-> "none", names |-> <<>>, n |-> 0, tasks |-> <<>>, all |-> PromiseAllNew(0),
   awaited |-> FALSE,
   \* history, read by the properties only
   pre |-> [sessions |-> EmptyMap, tabs |-> EmptyMap],
   first |-> NoError, interf |-> FALSE]

\* runParallel's wrapper of tasks[k-1], up to its suspension in `await
\* task(session)`: a createSession that throws rejects the wrapper before
\* the try block is entered.
WrapperStartRP(R, c, k) ==
  LET r == createSession(R, ParallelName(k - 1), "runParallel")
  IN [reg |-> r.reg,
      task |-> IF r.err # NoError THEN Rejected(NULL, r.err) ELSE Running(r.session)]

\* (a slip: every wrapper resolves the first name of the list)
WrapperStartWSFirstName(R, c, sessionNames, k) ==
  LET sessionName == IF 1 <= Len(sessionNames) THEN sessionNames[1] ELSE NoName
      found == getSession(R, sessionName)
      r == IF found = NULL THEN createSession(R, sessionName, "runParallelWithSessions")
           ELSE [reg |-> R, session |-> found, err |-> NoError]
  IN [reg |-> r.reg,
      task |-> IF r.err # NoError THEN Rejected(NULL, r.err) ELSE Running(r.session)]

\* (a slip: every wrapper creates its session without looking it up)
WrapperStartWSAlwaysCreates(R, c, sessionNames, k) ==
  LET sessionName == IF k <= Len(sessionNames) THEN sessionNames[k] ELSE NoName
      r == createSession(R, sessionName, "runParallelWithSessions")
  IN [reg |-> r.reg,
      task |-> IF r.err # NoError THEN Rejected(NULL, r.err) ELSE Running(r.session)]

\* runParallelWithSessions' wrapper of tasks[k-1], up to its suspension.
WrapperStartWS(R, c, sessionNames, k) ==
  LET sessionName == IF k <= Len(sessionNames) THEN sessionNames[k] ELSE NoName
      found == getSession(R, sessionName)
      r == IF found = NULL THEN createSession(R, sessionName, "runParallelWithSessions")
           ELSE [reg |-> R, session |-> found, err |-> NoError]
  IN [reg |-> r.reg,
      task |-> IF r.err # NoError THEN Rejected(NULL, r.err) ELSE Running(r.session)]

\* tasks.map(async (task, index) => ...): the wrappers run one after the
\* other, each to its first suspension, before Promise.all sees them.
RECURSIVE MapWrappers(_, _, _, _, _, _)
MapWrappers(kind, R, c, sessionNames, n, k) ==
  IF k > n THEN [reg |-> R, tasks |-> <<>>]
  ELSE LET w == IF kind = "runParallel" THEN WrapperStartRP(R, c, k)
                ELSE WrapperStartWS(R, c, sessionNames, k)
           rest == MapWrappers(kind, w.reg, c, sessionNames, n, k + 1)
       IN [reg |-> rest.reg, tasks |-> <<w.task>> \o rest.tasks]

\* History: the registry as a call found it, and the first failure in time
\* among a call's tasks (the wrappers run, and fail, in index order).
Snapshot(R) ==
  [sessions |-> R.sessions,
   tabs |-> [name \in DOMAIN R.sessions |-> R.heap[R.sessions[name]].tabId]]

RECURSIVE FirstFailure(_, _)
FirstFailure(tasks, k) ==
  IF k > Len(tasks) THEN NoError
  ELSE IF tasks[k].st = "rejected" THEN tasks[k].ret ELSE FirstFailure(tasks, k + 1)

\* runParallel(tasks), to the point where it awaits Promise.all.
runParallel(R, c, n) ==
  LET m == MapWrappers("runParallel", R, c, <<>>, n, 1)
  IN [reg |-> m.reg,
      call |-> [IdleCall EXCEPT !.kind = "runParallel", !.n = n, !.tasks = m.tasks,
                                !.all = PromiseAllSubscribe(PromiseAllNew(n), m.tasks, 1),
                                !.pre = Snapshot(R), !.first = FirstFailure(m.tasks, 1)]]

\* (a slip: no length check)
runParallelWithSessionsUnchecked(R, c, sessionNames, n) ==
  LET m == MapWrappers("runParallelWithSessions", R, c, sessionNames, n, 1)
  IN [reg |-> m.reg,
      call |-> [IdleCall EXCEPT !.kind = "runParallelWithSessions", !.n = n,
                                !.names = sessionNames, !.tasks = m.tasks,
                                !.all = PromiseAllSubscribe(PromiseAllNew(n), m.tasks, 1),
                                !.pre = Snapshot(R), !.first = FirstFailure(m.tasks, 1)]]

\* runParallelWithSessions(sessionNames, tasks), to the same point; the
\* length check throws before anything else is done.
runParallelWithSessions(R, c, sessionNames, n) ==
  IF Len(sessionNames) # n
  THEN [reg |-> R,
        call |-> [IdleCall EXCEPT !.kind = "runParallelWithSessions", !.n = n,
                                  !.tasks = [k \in 1..n |-> NotStarted],
                                  !.all = PromiseAllReject(PromiseAllNew(1), ArityError),
                                  !.pre = Snapshot(R), !.first = ArityError]]
  ELSE LET m == MapWrappers("runParallelWithSessions", R, c, sessionNames, n, 1)
       IN [reg |-> m.reg,
           call |-> [IdleCall EXCEPT !.kind = "runParallelWithSessions", !.n = n,
                                     !.names = sessionNames, !.tasks = m.tasks,
                                     !.all = PromiseAllSubscribe(PromiseAllNew(n), m.tasks, 1),
                                     !.pre = Snapshot(R), !.first = FirstFailure(m.tasks, 1)]]

\* What tasks[k-1] does when it ends: it returns a value of its own with
\* the tab handle it reads from its session, or it throws.
TaskOutcomes == {"return", "throw"}
TaskResult(R, t, k, how) ==
  IF how = "throw" THEN Rejected(t.session, TaskError(k))
  ELSE Fulfilled(t.session, TaskValue(k, getTabId(R, t.session)))

\* The wrapper of a runParallel task resumes: `finally` removes the session
\* registered under the name of the session it created.
\* (a slip: the cleanup is done on the success path only)
WrapperFinallyRPOnSuccess(R, t) ==
  IF t.st = "rejected" THEN R ELSE removeSession(R, getSessionId(R, t.session))

WrapperFinallyRP(R, t) == removeSession(R, getSessionId(R, t.session))
\* (a slip: the named sessions are cleaned up like the ephemeral ones)
WrapperFinallyWSRemoves(R, t) == removeSession(R, getSessionId(R, t.session))
WrapperFinallyWS(R, t) == R

WrapperResume(kind, R, t) ==
  IF kind = "runParallel" THEN WrapperFinallyRP(R, t) ELSE WrapperFinallyWS(R, t)

\* (a slip: Promise.allSettled, then the failure of the lowest index)
PromiseAllSettleWaits(p, k, t) ==
  LET q == [p EXCEPT !.values[k] = t.ret, !.remaining = @ - 1,
                     !.reason = IF t.st = "rejected" /\ @ = NoError THEN t.ret ELSE @]
  IN IF q.remaining > 0 THEN q
     ELSE [q EXCEPT !.state = IF q.reason = NoError THEN "fulfilled" ELSE "rejected"]

PromiseAllSettle(p, k, t) ==
  IF t.st = "rejected" THEN PromiseAllReject(p, t.ret) ELSE PromiseAllFulfil(p, k, t.ret)

\* ------------------------------------------------------------------ actions
\* What the last operation issued handed back to its caller (createSession,
\* removeSession, clearAll), or that the last step was a task ending after
\* its call's outcome had been taken ("lateTask").
Op(op, name, ret, err) == [op |-> op, name |-> name, ret |-> ret, err |-> err]
OtherOp == Op("other", NoName, NULL, NoError)

\* Every operation that is not call c's own interferes with the calls that
\* are under way (history, read by the properties only).
Interfere(cs, c) ==
  [d \in CallIds |->
     IF d # c /\ cs[d].kind \in {"runParallel", "runParallelWithSessions"} /\ ~cs[d].awaited
     THEN [cs[d] EXCEPT !.interf = TRUE]
     ELSE cs[d]]

\* A call whose outcome the caller has taken keeps only what its wrappers
\* still need: the sessions of the tasks that are running. Its promise and
\* its history are dropped, and so is the call when no task is left.
DoneTask == [st |-> "done", session |-> NULL, ret |-> NoValue]
Retire(call) ==
  IF ~call.awaited THEN call
  ELSE LET tasks == [k \in DOMAIN call.tasks |->
                       IF call.tasks[k].st = "running" THEN call.tasks[k] ELSE DoneTask]
       IN IF \A k \in DOMAIN tasks : tasks[k].st # "running"
          THEN [IdleCall EXCEPT !.kind = "over"]
          ELSE [IdleCall EXCEPT !.kind = call.kind, !.n = call.n, !.tasks = tasks,
                                !.awaited = TRUE]

\* The objects that something still refers to: the registry and the
\* wrappers that are suspended on their task. The others are garbage.
Live(ss, cs) ==
  {ss[name] : name \in DOMAIN ss}
    \cup UNION {{cs[c].tasks[k].session :
                   k \in {j \in DOMAIN cs[c].tasks : cs[c].tasks[j].st = "running"}} :
                 c \in CallIds}

SetReg(R, cs) ==
  /\ sessions' = R.sessions
  /\ sessionCounter' = R.sessionCounter
  /\ allocated' = R.allocated
  /\ heap' = [obj \in DOMAIN R.heap \cap Live(R.sessions, cs) |-> R.heap[obj]]
  /\ calls' = cs
  /\ UNCHANGED <<monVars, cliVars>>

RegInit ==
  /\ sessions = EmptyMap
  /\ sessionCounter = 0
  /\ heap = EmptyMap
  /\ allocated = 0
  /\ calls = [c \in CallIds |-> IdleCall]
  /\ work = 0
  /\ lastOp = OtherOp

DirectOp ==
  /\ work + 1 <= MaxWork
  /\ work' = work + 1

FanOut ==
  /\ work + 2 <= MaxWork
  /\ work' = work + 2

\* manager.createSession(name), or manager.createSession() with NoName
DoCreateSession(name) ==
  /\ DirectOp
  /\ LET r == createSession(Reg, name, "caller")
     IN /\ SetReg(r.reg, Interfere(calls, 0))
        /\ lastOp' = Op("createSession", name, r.session, r.err)

\* manager.removeSession(name)
DoRemoveSession(name) ==
  /\ DirectOp
  /\ SetReg(removeSession(Reg, name), Interfere(calls, 0))
  /\ lastOp' = Op("removeSession", name, NULL, NoError)

\* manager.clearAll()
DoClearAll ==
  /\ DirectOp
  /\ SetReg(clearAll(Reg), Interfere(calls, 0))
  /\ lastOp' = Op("clearAll", NoName, NULL, NoError)

\* manager.getSession(name)?.setTabId(tabId)
DoSetTabId(name, tabId) ==
  /\ DirectOp
  /\ getSession(Reg, name) # NULL
  /\ SetReg(setTabId(Reg, getSession(Reg, name), tabId), Interfere(calls, 0))
  /\ lastOp' = OtherOp

NextCall(c) ==
  /\ calls[c].kind = "none"
  /\ \A d \in CallIds : d < c => calls[d].kind # "none"

\* manager.runParallel(tasks) with n tasks
DoRunParallel(c, n) ==
  /\ NextCall(c)
  /\ FanOut
  /\ LET r == runParallel(Reg, c, n)
     IN SetReg(r.reg, [Interfere(calls, c) EXCEPT ![c] = r.call])
  /\ lastOp' = OtherOp

\* manager.runParallelWithSessions(sessionNames, tasks) with n tasks
DoRunParallelWithSessions(c, sessionNames, n) ==
  /\ NextCall(c)
  /\ FanOut
  /\ LET r == runParallelWithSessions(Reg, c, sessionNames, n)
     IN SetReg(r.reg, [Interfere(calls, c) EXCEPT ![c] = r.call])
  /\ lastOp' = OtherOp

\* tasks[k-1] of call c ends, its wrapper resumes and settles, and
\* Promise.all reacts.
TaskSettles(c, k, how) ==
  /\ calls[c].kind \in {"runParallel", "runParallelWithSessions"}
  /\ k \in 1..Len(calls[c].tasks)
  /\ calls[c].tasks[k].st = "running"
  /\ LET t == TaskResult(Reg, calls[c].tasks[k], k, how)
         call == [calls[c] EXCEPT
                    !.tasks[k] = t,
                    !.all = PromiseAllSettle(@, k, t),
                    !.first = IF @ = NoError /\ t.st = "rejected" THEN t.ret ELSE @]
     IN SetReg(WrapperResume(calls[c].kind, Reg, t),
               [Interfere(calls, c) EXCEPT ![c] = Retire(call)])
  /\ lastOp' = IF calls[c].awaited THEN Op("lateTask", NoName, NULL, NoError) ELSE OtherOp
  /\ UNCHANGED work

\* `await manager.runParallel*(...)` resumes in the caller: with the list
\* of results, or with the rejection thrown.
AwaitOutcome(c) ==
  /\ calls[c].kind \in {"runParallel", "runParallelWithSessions"}
  /\ ~calls[c].awaited
  /\ calls[c].all.state # "pending"
  /\ calls' = [calls EXCEPT ![c] = Retire([@ EXCEPT !.awaited = TRUE])]
  /\ lastOp' = OtherOp
  /\ UNCHANGED <<sessions, sessionCounter, heap, allocated, work>>
  /\ UNCHANGED <<monVars, cliVars>>

NameLists == UNION {[1..len -> UserNames] : len \in 0..MaxTasks}

RegNext ==
  \/ \E name \in UserNames \cup {NoName} : DoCreateSession(name)
  \/ \E name \in UserNames : DoRemoveSession(name)
  \/ DoClearAll
  \/ \E name \in UserNames, tabId \in TabIds : DoSetTabId(name, tabId)
  \/ \E c \in CallIds, n \in 0..MaxTasks : DoRunParallel(c, n)
  \/ \E c \in CallIds, sessionNames \in NameLists, n \in 0..MaxTasks :
       DoRunParallelWithSessions(c, sessionNames, n)
  \/ \E c \in CallIds, k \in 1..MaxTasks, how \in TaskOutcomes : TaskSettles(c, k, how)
  \/ \E c \in CallIds : AwaitOutcome(c)

\* ====================================================== DialogDetector.ts
\* Sizes are byte lengths, thresholds are fractions counted in hundredths
\* (10 is 0.1), intervals are milliseconds.
DefaultInterval == 5000
DefaultThreshold == 10
MaxTimers == 2      \* setInterval calls in one behaviour
MaxInFlight == 2    \* check cycles suspended at one time

Callbacks == {1, 2}
NoCallback == 0                 \* detectionCallback: null
NoTimer == 0                    \* monitorTimer: null
NoBuffer == <<>>                \* previousScreenshot: null
Buffer(length) == <<length>>    \* a Buffer of that many bytes
Lengths == {0, 80, 90, 100}        \* 0: what the placeholder takeScreenshot returns
Intervals == {1000}
Thresholds == {-10, 0, 100, 150}
OptionIntervals == {0, 2000}    \* 0: screenshotInterval not given
OptionThresholds == {0, 150}    \* 0: diffThreshold not given

\* The detector and its event loop, as one value that the methods below
\* thread through their statements.
Mon ==
  [screenshotInterval |-> screenshotInterval, diffThreshold |-> diffThreshold,
   monitoring |-> monitoring, monitorTimer |-> monitorTimer,
   previousScreenshot |-> previousScreenshot, detectionCallback |-> detectionCallback,
   timers |-> timers, timerCount |-> timerCount, starts |-> starts, checks |-> checks]

RemoveAt(seq, j) == SubSeq(seq, 1, j - 1) \o SubSeq(seq, j + 1, Len(seq))

\* constructor(options?): `options?.x || default`
NewDialogDetector(optInterval, optThreshold) ==
  [screenshotInterval |-> IF optInterval # 0 THEN optInterval ELSE DefaultInterval,
   diffThreshold |-> IF optThreshold # 0 THEN optThreshold ELSE DefaultThreshold,
   monitoring |-> FALSE, monitorTimer |-> NoTimer,
   previousScreenshot |-> NoBuffer, detectionCallback |-> NoCallback,
   timers |-> EmptyMap, timerCount |-> 0, starts |-> 0, checks |-> <<>>]

\* startMonitoring with the `if (this.monitoring) return` guard left out
startMonitoringReplaces(M, callback) ==
  [M EXCEPT !.monitoring = TRUE, !.detectionCallback = callback, !.starts = @ + 1]

\* startMonitoring(callback), to its suspension in `await takeScreenshot()`
startMonitoring(M, callback) ==
  IF M.monitoring THEN M
  ELSE [M EXCEPT !.monitoring = TRUE, !.detectionCallback = callback,
                 !.starts = @ + 1]

\* startMonitoring resumes with the capture: the baseline is stored and
\* setInterval schedules the check at the interval that is set now.
startMonitoringResume(M, buffer) ==
  LET timer == M.timerCount + 1
  IN [M EXCEPT !.previousScreenshot = buffer,
               !.monitorTimer = timer,
               !.timerCount = timer,
               !.timers = MapPut(@, timer, M.screenshotInterval),
               !.starts = @ - 1]

\* startMonitoring resumes with the capture's failure and rejects.
startMonitoringFail(M) == [M EXCEPT !.starts = @ - 1]

\* stopMonitoring(): it has no suspension. (History: the check cycles that
\* are suspended when it runs past its guard are marked.)
stopMonitoring(M) ==
  IF ~M.monitoring THEN M
  ELSE [M EXCEPT !.monitoring = FALSE,
                 !.timers = IF M.monitorTimer # NoTimer THEN MapRemove(@, M.monitorTimer) ELSE @,
                 !.monitorTimer = NoTimer,
                 !.previousScreenshot = NoBuffer,
                 !.detectionCallback = NoCallback,
                 !.checks = [j \in DOMAIN @ |-> [@[j] EXCEPT !.stopped = TRUE]]]

\* setScreenshotInterval(interval): stopMonitoring() runs to its end, then
\* startMonitoring is called with what this.detectionCallback holds by then.
setScreenshotInterval(M, interval) ==
  LET M1 == [M EXCEPT !.screenshotInterval = interval]
  IN IF M1.monitoring /\ M1.detectionCallback # NoCallback
     THEN LET M2 == stopMonitoring(M1)
          IN startMonitoring(M2, M2.detectionCallback)
     ELSE M1

\* setDiffThreshold with the range check left out
setDiffThresholdUnchecked(M, threshold) == [M EXCEPT !.diffThreshold = threshold]

\* setDiffThreshold(threshold)
setDiffThresholdThrows(threshold) == threshold < 0 \/ threshold > 100
setDiffThreshold(M, threshold) ==
  IF setDiffThresholdThrows(threshold) THEN M ELSE [M EXCEPT !.diffThreshold = threshold]

\* detectDialog(prev, current): sizeDiff > this.diffThreshold, where
\* sizeDiff = |prevSize - currentSize| / max(prevSize, currentSize); 0 / 0
\* is NaN, which is greater than nothing.
Abs(x) == IF x < 0 THEN -x ELSE x
Max(x, y) == IF x > y THEN x ELSE y
\* detectDialog with `>=` in place of `>`
detectDialogAtLeast(M, prev, current) ==
  LET prevSize == prev[1]
      currentSize == current[1]
  IN /\ Max(prevSize, currentSize) # 0
     /\ 100 * Abs(prevSize - currentSize) >= M.diffThreshold * Max(prevSize, currentSize)

detectDialog(M, prev, current) ==
  LET prevSize == prev[1]
      currentSize == current[1]
  IN /\ Max(prevSize, currentSize) # 0
     /\ 100 * Abs(prevSize - currentSize) > M.diffThreshold * Max(prevSize, currentSize)

\* The timer fires: checkForDialog() runs to `await takeScreenshot()`.
timerFires(M, timer) ==
  [M EXCEPT !.checks = Append(@, [phase |-> "capture", current |-> NoBuffer,
                                  \* history, read by the properties only
                                  stopped |-> FALSE])]

\* checkForDialog resumes with the capture: without a dialog the baseline
\* is replaced, with one the cycle suspends in `await saveScreenshot()`.
checkForDialogCaptured(M, j, buffer) ==
  IF M.previousScreenshot # NoBuffer /\ detectDialog(M, M.previousScreenshot, buffer)
  THEN [M EXCEPT !.checks[j] = [@ EXCEPT !.phase = "save", !.current = buffer]]
  ELSE [M EXCEPT !.previousScreenshot = buffer, !.checks = RemoveAt(@, j)]

\* checkForDialog resumes with the capture's failure: caught and logged.
\* (a slip: a failed capture ends the monitoring)
checkForDialogFailedStops(M, j) == stopMonitoring([M EXCEPT !.checks = RemoveAt(@, j)])

checkForDialogFailed(M, j) == [M EXCEPT !.checks = RemoveAt(@, j)]

\* checkForDialog resumes after saveScreenshot: the callback that is set
\* now is invoked, and the baseline is replaced; a callback that throws
\* throws into the catch, past the assignment of the baseline.
CallbackOutcomes == {"returns", "throws"}
checkForDialogInvokes(M, j) == M.detectionCallback
checkForDialogSaved(M, j, how) ==
  IF M.detectionCallback # NoCallback /\ how = "throws"
  THEN [M EXCEPT !.checks = RemoveAt(@, j)]
  ELSE [M EXCEPT !.previousScreenshot = M.checks[j].current, !.checks = RemoveAt(@, j)]

\* ------------------------------------------------------- monitor actions
\* What the last step did: which method or continuation ran (those that no
\* property looks at are "other"), the callback it invoked, and whether it
\* threw.
MonOp(op, invoked, threw) == [op |-> op, invoked |-> invoked, threw |-> threw]

SetMon(M) ==
  /\ screenshotInterval' = M.screenshotInterval
  /\ diffThreshold' = M.diffThreshold
  /\ monitoring' = M.monitoring
  /\ monitorTimer' = M.monitorTimer
  /\ previousScreenshot' = M.previousScreenshot
  /\ detectionCallback' = M.detectionCallback
  /\ timers' = M.timers
  /\ timerCount' = M.timerCount
  /\ starts' = M.starts
  /\ checks' = M.checks
  /\ UNCHANGED <<regVars, cliVars>>

MonInit ==
  /\ \E optInterval \in OptionIntervals, optThreshold \in OptionThresholds :
       LET M == NewDialogDetector(optInterval, optThreshold)
       IN /\ screenshotInterval = M.screenshotInterval
          /\ diffThreshold = M.diffThreshold
          /\ monitoring = M.monitoring
          /\ monitorTimer = M.monitorTimer
          /\ previousScreenshot = M.previousScreenshot
          /\ detectionCallback = M.detectionCallback
          /\ timers = M.timers
          /\ timerCount = M.timerCount
          /\ starts = M.starts
          /\ checks = M.checks
  /\ monOp = MonOp("other", NoCallback, FALSE)

\* detector.startMonitoring(callback)
DoStartMonitoring(callback) ==
  /\ timerCount + starts < MaxTimers
  /\ SetMon(startMonitoring(Mon, callback))
  /\ monOp' = MonOp("startMonitoring", NoCallback, FALSE)

\* a suspended startMonitoring resumes with the capture
StartResumes(length) ==
  /\ starts > 0
  /\ SetMon(startMonitoringResume(Mon, Buffer(length)))
  /\ monOp' = MonOp("other", NoCallback, FALSE)

\* a suspended startMonitoring resumes with the failure of the capture
StartFails ==
  /\ starts > 0
  /\ SetMon(startMonitoringFail(Mon))
  /\ monOp' = MonOp("other", NoCallback, TRUE)

\* detector.stopMonitoring()
DoStopMonitoring ==
  /\ SetMon(stopMonitoring(Mon))
  /\ monOp' = MonOp("other", NoCallback, FALSE)

\* detector.setScreenshotInterval(interval)
DoSetScreenshotInterval(interval) ==
  /\ timerCount + starts < MaxTimers
  /\ SetMon(setScreenshotInterval(Mon, interval))
  /\ monOp' = MonOp("other", NoCallback, FALSE)

\* detector.setDiffThreshold(threshold)
DoSetDiffThreshold(threshold) ==
  /\ SetMon(setDiffThreshold(Mon, threshold))
  /\ monOp' = MonOp("setDiffThreshold", NoCallback, setDiffThresholdThrows(threshold))

\* a scheduled timer fires
TimerTick(timer) ==
  /\ timer \in DOMAIN timers
  /\ Len(checks) < MaxInFlight
  /\ SetMon(timerFires(Mon, timer))
  /\ monOp' = MonOp("other", NoCallback, FALSE)

\* a check cycle resumes with its capture
CheckCaptured(j, length) ==
  /\ j \in 1..Len(checks)
  /\ checks[j].phase = "capture"
  /\ SetMon(checkForDialogCaptured(Mon, j, Buffer(length)))
  /\ monOp' = MonOp("checkForDialog", NoCallback, FALSE)

\* a check cycle resumes with the failure of its capture
CheckFails(j) ==
  /\ j \in 1..Len(checks)
  /\ checks[j].phase = "capture"
  /\ SetMon(checkForDialogFailed(Mon, j))
  /\ monOp' = MonOp("checkForDialogFailed", NoCallback, FALSE)

\* a check cycle that detected a dialog resumes after saveScreenshot
CheckSaved(j, how) ==
  /\ j \in 1..Len(checks)
  /\ checks[j].phase = "save"
  /\ SetMon(checkForDialogSaved(Mon, j, how))
  /\ monOp' = MonOp("checkForDialog", checkForDialogInvokes(Mon, j), FALSE)

MonNext ==
  \/ \E callback \in Callbacks : DoStartMonitoring(callback)
  \/ \E length \in Lengths : StartResumes(length)
  \/ StartFails
  \/ DoStopMonitoring
  \/ \E interval \in Intervals : DoSetScreenshotInterval(interval)
  \/ \E threshold \in Thresholds : DoSetDiffThreshold(threshold)
  \/ \E timer \in 1..MaxTimers : TimerTick(timer)
  \/ \E j \in 1..MaxInFlight, length \in Lengths : CheckCaptured(j, length)
  \/ \E j \in 1..MaxInFlight : CheckFails(j)
  \/ \E j \in 1..MaxInFlight, how \in CallbackOutcomes : CheckSaved(j, how)

\* ===================================================== ChromeMCPClient
MaxClients == 2     \* Client objects constructed in one behaviour
MaxPending == 2     \* callTool and close invocations suspended at one time

Tools == {"navigate", "read_page"}
NoReturn == "undefined"     \* what a call that hands nothing back returns
\* MCPToolResult.data: absent, the joined text, or the raw content
NoData == [kind |-> "none", text |-> "", content |-> <<>>]
DataText(text) == [kind |-> "text", text |-> text, content |-> <<>>]
DataRaw(content) == [kind |-> "raw", text |-> "", content |-> content]
NoMessage == ""
NotInitializedMessage == "MCP client is not initialized"
ConnectMessage == "connect ECONNREFUSED"     \* what client.connect rejects with
TransportMessage == "fetch failed"           \* what client.callTool rejects with
TimeoutMessage == "Request timed out"        \* ... when its timeout expires
\* JSON.stringify(content), in short
RECURSIVE Stringify(_)
Stringify(content) ==
  IF content = <<>> THEN ""
  ELSE (IF content[1].type = "text" THEN "{text:" \o content[1].text \o "}" ELSE "{image}")
       \o Stringify(Tail(content))
ToolFailedMessage(content) == "Tool execution failed: [" \o Stringify(content) \o "]"
\* CallToolResult.content: a list of items, the text ones carrying a text
TextItem(text) == [type |-> "text", text |-> text]
ImageItem == [type |-> "image", text |-> ""]
Contents ==
  {<<TextItem("")>>, <<TextItem(""), TextItem("")>>,
   <<TextItem("a"), ImageItem, TextItem("b")>>, <<ImageItem>>}
\* content.filter(item => item.type === 'text').map(item => item.text).join('\n')
IsTextItem(item) == item.type = "text"
RECURSIVE Join(_, _)
Join(texts, separator) ==
  IF texts = <<>> THEN ""
  ELSE IF Len(texts) = 1 THEN texts[1]
  ELSE texts[1] \o separator \o Join(Tail(texts), separator)
textContent(content) ==
  LET items == SelectSeq(content, IsTextItem)
  IN Join([i \in 1..Len(items) |-> items[i].text], "\n")
CallToolResult(isError, content) == [isError |-> isError, content |-> content]
MCPToolResult(success, data, error) == [success |-> success, data |-> data, error |-> error]
NoResult == MCPToolResult(FALSE, NoData, NoMessage)

\* The client and its suspended invocations, as one value.
Cli ==
  [client |-> client, isConnected |-> isConnected, clientCount |-> clientCount,
   pending |-> pending]

NewChromeMCPClient ==
  [client |-> NULL, isConnected |-> FALSE, clientCount |-> 0, pending |-> <<>>]

\* ensureConnection(), entered by the invocation inv of callTool: it returns
\* at once on a connection, and otherwise stores a new Client and suspends
\* in `await this.client.connect(transport)`.
ensureConnection(C, inv) ==
  IF C.isConnected /\ C.client # NULL
  THEN [C EXCEPT !.pending = Append(@, [inv EXCEPT !.phase = "ensured"])]
  ELSE LET h == C.clientCount + 1
       IN [C EXCEPT !.client = h, !.clientCount = h,
                    !.pending = Append(@, [inv EXCEPT !.phase = "connect", !.handle = h])]

\* connect resolved: ensureConnection sets the flag and returns.
ensureConnectionResolved(C, i) ==
  [C EXCEPT !.isConnected = TRUE, !.pending[i].phase = "ensured"]

\* connect rejected: ensureConnection clears the flag and rethrows.
\* (a slip: the catch leaves the flag as it is)
ensureConnectionRejectedKeepsFlag(C, i) == C

ensureConnectionRejected(C, i) == [C EXCEPT !.isConnected = FALSE]

\* callTool(toolName, params), to its first suspension
callTool(C, toolName, tabId, after) ==
  ensureConnection(C, [kind |-> "callTool", phase |-> "entered", handle |-> NULL,
                       toolName |-> toolName, tabId |-> tabId, after |-> after])

\* callTool after `await this.ensureConnection()`: without a client it
\* throws into its own catch, with one it calls this.client.callTool.
callToolHasClient(C) == C.client # NULL
callToolIssues(C, i) ==
  [C EXCEPT !.pending[i].phase = "call", !.pending[i].handle = C.client]

\* callTool's catch with the isError branch taken for a success
callToolReturnsIgnoringFlag(callResult) ==
  MCPToolResult(TRUE, IF textContent(callResult.content) # "" THEN DataText(textContent(callResult.content))
                      ELSE DataRaw(callResult.content), NoMessage)

\* callTool after `await this.client.callTool(...)` has resolved
callToolReturns(callResult) ==
  IF callResult.isError
  THEN MCPToolResult(FALSE, NoData, ToolFailedMessage(callResult.content))
  ELSE MCPToolResult(TRUE, IF textContent(callResult.content) # ""  \* `textContent || content`
                           THEN DataText(textContent(callResult.content))
                           ELSE DataRaw(callResult.content), NoMessage)

\* a catch that gives the connection up
callToolCatchResets(C, i) ==
  [C EXCEPT !.client = NULL, !.isConnected = FALSE, !.pending = RemoveAt(@, i)]

\* callTool's catch: the failure becomes the result, the client is left alone
callToolCatch(C, i) == [C EXCEPT !.pending = RemoveAt(@, i)]
callToolCaught(message) == MCPToolResult(FALSE, NoData, message)

\* close(), to its suspension in `await this.client.close()`
close(C) ==
  IF C.client # NULL
  THEN [C EXCEPT !.pending = Append(@, [kind |-> "close", phase |-> "close", handle |-> C.client,
                                        toolName |-> "", tabId |-> NoTab, after |-> "none"])]
  ELSE C

\* close resolved: the client and the flag are cleared
closeResolved(C, i) ==
  [C EXCEPT !.client = NULL, !.isConnected = FALSE, !.pending = RemoveAt(@, i)]

\* close rejected: close() rejects with nothing cleared
closeRejected(C, i) == [C EXCEPT !.pending = RemoveAt(@, i)]

\* ChromeSession's operations: what each one returns
SessionOperations ==
  {"navigate", "click", "fill", "screenshot", "evaluate", "readPage", "find",
   "getPageText", "resizeWindow", "readConsoleMessages", "readNetworkRequests"}
sessionOperation(session, operation) ==
  CASE operation \in {"navigate", "click", "fill", "resizeWindow"} -> "undefined"
    [] operation = "screenshot" -> "Buffer.from('')"
    [] operation = "evaluate" -> "null"
    [] operation = "readPage" -> "{}"
    [] operation = "getPageText" -> "''"
    [] OTHER -> "[]"

\* -------------------------------------------------------- client actions
\* What the last step handed back: which call returned, why (what the
\* remote side did), the MCPToolResult or the value, and whether it threw.
ClientOp(op, why, result, value, threw) ==
  [op |-> op, why |-> why, result |-> result, value |-> value, threw |-> threw]
ClientOther == ClientOp("other", "none", NoResult, NoReturn, FALSE)

SetCli(C) ==
  /\ client' = C.client
  /\ isConnected' = C.isConnected
  /\ clientCount' = C.clientCount
  /\ pending' = C.pending
  /\ UNCHANGED <<regVars, monVars>>

CliInit ==
  /\ client = NewChromeMCPClient.client
  /\ isConnected = NewChromeMCPClient.isConnected
  /\ clientCount = NewChromeMCPClient.clientCount
  /\ pending = NewChromeMCPClient.pending
  /\ clientOp = ClientOther

IsCall(i, phase) ==
  /\ i \in 1..Len(pending)
  /\ pending[i].kind = "callTool"
  /\ pending[i].phase = phase

\* client.callTool(toolName, {tabId})
DoCallTool(toolName, tabId) ==
  /\ Len(pending) < MaxPending
  /\ (isConnected /\ client # NULL) \/ clientCount < MaxClients
  /\ SetCli(callTool(Cli, toolName, tabId, clientOp.why))
  /\ clientOp' = ClientOther

\* the connect of invocation i resolves
ConnectResolves(i) ==
  /\ IsCall(i, "connect")
  /\ SetCli(ensureConnectionResolved(Cli, i))
  /\ clientOp' = ClientOther

\* the connect of invocation i rejects; callTool catches what is rethrown
ConnectRejects(i) ==
  /\ IsCall(i, "connect")
  /\ SetCli(callToolCatch(ensureConnectionRejected(Cli, i), i))
  /\ clientOp' = ClientOp("callTool", "connect", callToolCaught(ConnectMessage), NoReturn, FALSE)

\* invocation i goes on after ensureConnection
CallGoesOn(i) ==
  /\ IsCall(i, "ensured")
  /\ IF callToolHasClient(Cli)
     THEN /\ SetCli(callToolIssues(Cli, i))
          /\ clientOp' = ClientOther
     ELSE /\ SetCli(callToolCatch(Cli, i))
          /\ clientOp' = ClientOp("callTool", "noclient", callToolCaught(NotInitializedMessage),
                                  NoReturn, FALSE)

\* the remote call of invocation i resolves with a CallToolResult
CallResolves(i, isError, content) ==
  /\ IsCall(i, "call")
  /\ SetCli([Cli EXCEPT !.pending = RemoveAt(@, i)])
  /\ clientOp' = ClientOp("callTool", IF isError THEN "flag" ELSE "return",
                          callToolReturns(CallToolResult(isError, content)), NoReturn, FALSE)

\* the remote call of invocation i rejects: the transport failed
CallRejects(i) ==
  /\ IsCall(i, "call")
  /\ SetCli(callToolCatch(Cli, i))
  /\ clientOp' = ClientOp("callTool", "throw", callToolCaught(TransportMessage), NoReturn, FALSE)

\* the remote call of invocation i rejects: its timeout expired
CallTimesOut(i) ==
  /\ IsCall(i, "call")
  /\ SetCli(callToolCatch(Cli, i))
  /\ clientOp' = ClientOp("callTool", "timeout", callToolCaught(TimeoutMessage), NoReturn, FALSE)

\* client.close()
DoClose ==
  /\ Len(pending) < MaxPending
  /\ SetCli(close(Cli))
  /\ clientOp' = IF client # NULL THEN ClientOther
                 ELSE ClientOp("close", "none", NoResult, NoReturn, FALSE)

IsClose(i) == i \in 1..Len(pending) /\ pending[i].kind = "close"

CloseResolves(i) ==
  /\ IsClose(i)
  /\ SetCli(closeResolved(Cli, i))
  /\ clientOp' = ClientOp("close", "none", NoResult, NoReturn, FALSE)

CloseRejects(i) ==
  /\ IsClose(i)
  /\ SetCli(closeRejected(Cli, i))
  /\ clientOp' = ClientOp("close", "throw", NoResult, NoReturn, TRUE)

\* session.<operation>(...) on a session whose tab is tabId
DoSessionOperation(operation, tabId) ==
  /\ SetCli(Cli)
  /\ clientOp' = ClientOp(operation, "none", NoResult,
                          sessionOperation([NewChromeSession("A", "caller") EXCEPT !.tabId = tabId],
                                           operation), FALSE)

CliNext ==
  \/ \E toolName \in Tools, tabId \in TabIds : DoCallTool(toolName, tabId)
  \/ \E i \in 1..MaxPending : ConnectResolves(i)
  \/ \E i \in 1..MaxPending : ConnectRejects(i)
  \/ \E i \in 1..MaxPending : CallGoesOn(i)
  \/ \E i \in 1..MaxPending, isError \in BOOLEAN, content \in Contents :
       CallResolves(i, isError, content)
  \/ \E i \in 1..MaxPending : CallRejects(i)
  \/ \E i \in 1..MaxPending : CallTimesOut(i)
  \/ DoClose
  \/ \E i \in 1..MaxPending : CloseResolves(i)
  \/ \E i \in 1..MaxPending : CloseRejects(i)
  \/ \E operation \in SessionOperations, tabId \in TabIds :
       DoSessionOperation(operation, tabId)

\* ------------------------------------------------------- specifications
vars == <<regVars, monVars, cliVars>>

\* A detector that nobody uses, beside the registry.
MonQuiet ==
  /\ screenshotInterval = DefaultInterval
  /\ diffThreshold = DefaultThreshold
  /\ monitoring = FALSE
  /\ monitorTimer = NoTimer
  /\ previousScreenshot = NoBuffer
  /\ detectionCallback = NoCallback
  /\ timers = EmptyMap
  /\ timerCount = 0
  /\ starts = 0
  /\ checks = <<>>
  /\ monOp = MonOp("other", NoCallback, FALSE)

\* The session registry and its fan-out.
\* A client that nobody uses.
CliQuiet == CliInit

Init == RegInit /\ MonQuiet /\ CliQuiet
Next == RegNext
Spec == Init /\ [][Next]_vars

\* The dialog monitor.
InitMonitor == MonInit /\ RegInit /\ CliQuiet
NextMonitor == MonNext
SpecMonitor == InitMonitor /\ [][NextMonitor]_vars

\* The tool client, and the session operations that are to use it.
InitClient == CliInit /\ RegInit /\ MonQuiet
NextClient == CliNext
SpecClient == InitClient /\ [][NextClient]_vars

\* ------------------------------------------------------------- properties
FanOutKinds == {"runParallel", "runParallelWithSessions"}
\* Call c is under way: started, and its outcome not yet taken by the caller.
UnderWay(c) == calls[c].kind \in FanOutKinds /\ ~calls[c].awaited
\* The caller may observe call c's outcome now.
Settled(c) == UnderWay(c) /\ calls[c].all.state # "pending"
IsDuplicate(err) == err.type = "Duplicate"
Matched(c) == calls[c].kind = "runParallelWithSessions" /\ calls[c].first # ArityError

\* C1: when a runParallel call completes, by its results or by the failure
\* of a task that threw, and no other registry operation was issued in
\* between, the session count is the count before the call.
C1_CountRestoredAtOutcome ==
  \A c \in CallIds :
    (calls[c].kind = "runParallel" /\ Settled(c) /\ ~calls[c].interf
       /\ calls[c].first.type \in {"none", "Task"})
      => getSessionCount(Reg) = Cardinality(DOMAIN calls[c].pre.sessions)

\* C2: when two runParallel invocations overlap, no wrapper of either is
\* rejected with a duplicate-session error for a name that an ephemeral
\* session of a runParallel holds.
C2_EphemeralNamesUnique ==
  \A c \in CallIds :
    calls[c].kind = "runParallel" =>
      \A k \in DOMAIN calls[c].tasks :
        LET t == calls[c].tasks[k]
        IN ~(/\ t.st = "rejected"
             /\ IsDuplicate(t.ret)
             /\ t.ret.name \in DOMAIN sessions
             /\ heap[sessions[t.ret.name]].creator = "runParallel")

\* C3: a runParallel call returns exactly when all its tasks have succeeded,
\* and then with one result per task, result[i] being what tasks[i]
\* returned.
C3_ResultsInInputOrder ==
  \A c \in CallIds :
    (calls[c].kind = "runParallel" /\ UnderWay(c)) =>
      /\ calls[c].all.state = "fulfilled"
           <=> \A k \in 1..calls[c].n : calls[c].tasks[k].st = "fulfilled"
      /\ calls[c].all.state = "fulfilled" =>
           /\ Len(calls[c].all.values) = calls[c].n
           /\ \A k \in 1..calls[c].n :
                /\ calls[c].all.values[k] = calls[c].tasks[k].ret
                /\ calls[c].all.values[k].task = k

C3_Witness ==
  \E c \in CallIds :
    /\ calls[c].kind = "runParallel" /\ UnderWay(c)
    /\ calls[c].n = MaxTasks
    /\ calls[c].all.state = "fulfilled"

\* C4: right after createSession(name) with a valid name has returned,
\* getSession(name) is the object returned and its id is name; a
\* createSession(name) for a registered name throws the duplicate error and
\* registers nothing, and one for a free name succeeds.
C4_AfterCreate ==
  (lastOp.op = "createSession" /\ lastOp.name # NoName /\ lastOp.err = NoError) =>
    /\ lastOp.ret # NULL
    /\ getSession(Reg, lastOp.name) = lastOp.ret
    /\ getSessionId(Reg, lastOp.ret) = lastOp.name

C4_CreateStep ==
  \A name \in UserNames :
    DoCreateSession(name) =>
      IF name \in DOMAIN sessions
      THEN lastOp'.err = DuplicateError(name) /\ sessions' = sessions /\ heap' = heap
      ELSE lastOp'.err = NoError

C4_CreateGetDuplicate == []C4_AfterCreate /\ [][C4_CreateStep]_vars

C4_Witness ==
  /\ lastOp.op = "createSession"
  /\ lastOp.name # NoName
  /\ lastOp.err = DuplicateError(lastOp.name)

\* C5: runParallelWithSessions with lists of different lengths is rejected
\* with the arity error, leaves the registry as it was and starts no task.
C5_ArityStep ==
  \A c \in CallIds, sessionNames \in NameLists, n \in 0..MaxTasks :
    (Len(sessionNames) # n /\ DoRunParallelWithSessions(c, sessionNames, n)) =>
      /\ sessions' = sessions /\ sessionCounter' = sessionCounter
      /\ heap' = heap /\ allocated' = allocated
      /\ calls'[c].all.state = "rejected"
      /\ calls'[c].all.reason = ArityError
      /\ \A k \in DOMAIN calls'[c].tasks : calls'[c].tasks[k].st = "notStarted"

C5_ArityMismatch == [][C5_ArityStep]_vars

C5_Witness ==
  \E c \in CallIds :
    /\ Settled(c)
    /\ calls[c].all.reason = ArityError
    /\ calls[c].n = MaxTasks

\* C6: runParallelWithSessions hands tasks[i] the session registered under
\* names[i]; the results are aligned by index, each with the tab handle of
\* the task's own session; and with no other operation in between every
\* session that existed before the call is the same object with the same
\* tab handle.
C6_OwnSessionAligned ==
  \A c \in CallIds :
    (Matched(c) /\ UnderWay(c)) =>
      /\ \A k \in 1..calls[c].n :
           /\ calls[c].names[k] \in DOMAIN calls[c].pre.sessions =>
                calls[c].tasks[k].session = calls[c].pre.sessions[calls[c].names[k]]
           /\ calls[c].all.state = "fulfilled" =>
                /\ calls[c].all.values[k] = calls[c].tasks[k].ret
                /\ calls[c].all.values[k].task = k
           /\ (calls[c].tasks[k].st = "fulfilled" /\ ~calls[c].interf
                 /\ calls[c].names[k] \in DOMAIN calls[c].pre.sessions) =>
                calls[c].tasks[k].ret.tabId = calls[c].pre.tabs[calls[c].names[k]]
      /\ ~calls[c].interf =>
           \A name \in DOMAIN calls[c].pre.sessions :
             /\ getSession(Reg, name) = calls[c].pre.sessions[name]
             /\ getTabId(Reg, getSession(Reg, name)) = calls[c].pre.tabs[name]

C6_Witness ==
  \E c \in CallIds :
    /\ Matched(c) /\ Settled(c) /\ ~calls[c].interf
    /\ calls[c].n = 2
    /\ calls[c].all.state = "fulfilled"
    /\ calls[c].names[2] \in DOMAIN calls[c].pre.sessions
    /\ calls[c].names[1] # calls[c].names[2]
    /\ calls[c].all.values[2].tabId \in TabIds

\* C7: when a runParallelWithSessions call with matching lengths has
\* completed and nothing else removed a session in between, every name of
\* its list is registered; no step of the call removes or replaces a
\* registered session.
C7_AfterCall ==
  \A c \in CallIds :
    (Matched(c) /\ Settled(c) /\ ~calls[c].interf) =>
      \A k \in 1..calls[c].n : calls[c].names[k] \in DOMAIN sessions

C7_CallStep ==
  \A c \in CallIds, k \in 1..MaxTasks, how \in TaskOutcomes :
    (calls[c].kind = "runParallelWithSessions" /\ TaskSettles(c, k, how)) =>
      sessions' = sessions

C8_FailFast ==
  \A c \in CallIds :
    UnderWay(c) =>
      /\ calls[c].all.state = "rejected" <=> calls[c].first # NoError
      /\ calls[c].all.state = "rejected" => calls[c].all.reason = calls[c].first

C8_Witness ==
  \E c \in CallIds :
    /\ Settled(c)
    /\ calls[c].n = 2
    /\ calls[c].all.reason = TaskError(2)
    /\ calls[c].tasks[1].st = "running"

\* C9: the previous capture is present only while monitoring is true, and
\* the callback is present only while monitoring is true.
C9_PresentOnlyWhileMonitoring ==
  /\ previousScreenshot # NoBuffer => monitoring
  /\ detectionCallback # NoCallback => monitoring

\* C10: setScreenshotInterval called while monitoring (no startMonitoring
\* being suspended) leaves the monitor monitoring with the callback that
\* was registered before the call.
C10_IntervalStep ==
  \A interval \in Intervals :
    (monitoring /\ starts = 0 /\ DoSetScreenshotInterval(interval)) =>
      (monitoring' /\ detectionCallback' = detectionCallback)

C10_IntervalKeepsCallback == [][C10_IntervalStep]_vars

\* The fields of the detector, its timers and its suspended continuations.
detectorVars ==
  <<screenshotInterval, diffThreshold, monitoring, monitorTimer, previousScreenshot,
    detectionCallback, timers, timerCount, starts, checks>>

\* C11: startMonitoring called while monitoring is true changes nothing: the
\* monitor stays monitoring, the stored callback, the baseline and the timers
\* are as before, and no new capture is begun.
C11_StartStep ==
  \A callback \in Callbacks :
    (monitoring /\ DoStartMonitoring(callback)) => UNCHANGED detectorVars
C11_StartWhileMonitoringIsNoOp == [][C11_StartStep]_vars
\* startMonitoring has just returned on a running monitor: none of its
\* captures is pending, the timer and the callback of the first call are set.
C11_Witness ==
  /\ monOp.op = "startMonitoring"
  /\ monitoring /\ starts = 0
  /\ monitorTimer # NoTimer /\ previousScreenshot # NoBuffer
  /\ detectionCallback # NoCallback

\* The divergence of two sizes is strictly greater than threshold (in
\* hundredths); the divergence of two empty captures is NaN, greater than
\* nothing.
C12_Exceeds(prevSize, currentSize, threshold) ==
  /\ prevSize + currentSize > 0
  /\ 100 * (IF prevSize > currentSize THEN prevSize - currentSize ELSE currentSize - prevSize)
       > threshold * (IF prevSize > currentSize THEN prevSize ELSE currentSize)
\* A cycle that has a previous capture goes on to save and notify exactly
\* when the divergence is strictly greater than diffThreshold.
C12_CaptureStep ==
  \A j \in 1..MaxInFlight, length \in Lengths :
    (previousScreenshot # NoBuffer /\ CheckCaptured(j, length)) =>
      ((Len(checks') = Len(checks) /\ checks'[j].phase = "save")
         <=> C12_Exceeds(previousScreenshot[1], length, diffThreshold))
\* A callback is invoked only by a cycle that went on to notify.
C12_OnlyDetectionInvokes ==
  monOp'.invoked # NoCallback =>
    \E j \in 1..MaxInFlight, how \in CallbackOutcomes : CheckSaved(j, how)
C12_NotifyStepOriginal ==
  \A j \in 1..MaxInFlight, how \in CallbackOutcomes :
    CheckSaved(j, how) => monOp'.invoked # NoCallback
C12_NotifyStep ==
  \A j \in 1..MaxInFlight, how \in CallbackOutcomes :
    CheckSaved(j, how) => monOp'.invoked = detectionCallback
C13_ThresholdStep ==
  \A threshold \in Thresholds :
    DoSetDiffThreshold(threshold) =>
      /\ UNCHANGED <<screenshotInterval, monitoring, monitorTimer, previousScreenshot,
                     detectionCallback, timers, timerCount, starts, checks>>
      /\ IF threshold < 0 \/ threshold > 100
         THEN monOp'.threw /\ diffThreshold' = diffThreshold
         ELSE ~monOp'.threw /\ diffThreshold' = threshold
C13_SetDiffThreshold == [][C13_ThresholdStep]_vars
\* setDiffThreshold has just thrown on a running monitor.
C13_Witness ==
  /\ monOp.op = "setDiffThreshold" /\ monOp.threw
  /\ monitoring /\ previousScreenshot # NoBuffer /\ monitorTimer # NoTimer

\* C14: callTool never throws; its result has success = TRUE exactly when
\* the connection was there, the remote call returned and the result did not
\* carry the error flag, and otherwise success = FALSE with error populated.
C14_CallToolReturnsResult ==
  clientOp.op = "callTool" =>
    /\ ~clientOp.threw
    /\ clientOp.result.success <=> clientOp.why = "return"
    /\ clientOp.result.success =>
         clientOp.result.data # NoData /\ clientOp.result.error = NoMessage
    /\ ~clientOp.result.success =>
         clientOp.result.data = NoData /\ clientOp.result.error # NoMessage
\* callTool has just returned for a remote result that carried the error flag.
C14_Witness ==
  /\ clientOp.op = "callTool" /\ clientOp.why = "flag"
  /\ ~clientOp.result.success
  /\ isConnected /\ client # NULL

\* C15: whenever no callTool or close is under way, the Client object is
\* present if and only if isConnected is true.
C15_HandleIffConnected ==
  pending = <<>> => ((client # NULL) <=> isConnected)

\* A remote call that times out makes callTool return success = FALSE with
\* the timeout's message, and changes neither the flag nor the client.
C16_TimeoutStep ==
  \A i \in 1..MaxPending :
    CallTimesOut(i) =>
      /\ client' = client /\ isConnected' = isConnected /\ clientCount' = clientCount
      /\ clientOp'.op = "callTool" /\ ~clientOp'.threw
      /\ ~clientOp'.result.success /\ clientOp'.result.error = TimeoutMessage
\* A callTool entered on a connection constructs no Client and goes on to
\* issue its remote call on the Client that is there.
C16_NextCallStep ==
  /\ \A toolName \in Tools, tabId \in TabIds :
       (isConnected /\ client # NULL /\ DoCallTool(toolName, tabId)) =>
         /\ client' = client /\ isConnected' /\ clientCount' = clientCount
         /\ pending'[Len(pending')].phase = "ensured"
  /\ \A i \in 1..MaxPending :
       (client # NULL /\ CallGoesOn(i)) =>
         /\ pending'[i].phase = "call" /\ pending'[i].handle = client
         /\ client' = client /\ clientCount' = clientCount
\* C16: a callTool whose remote call times out returns a failure with a
\* timeout-indicating error and leaves flag and client as they were; the next
\* callTool issues its remote call on the same client without reconnecting.
C16_TimeoutKeepsConnection == [][C16_TimeoutStep /\ C16_NextCallStep]_vars
\* A callTool that was entered right after a timeout was reported has
\* issued its remote call on the one client there has ever been.
C16_Witness ==
  \E i \in 1..Len(pending) :
    /\ pending[i].kind = "callTool" /\ pending[i].phase = "call"
    /\ pending[i].after = "timeout"
    /\ pending[i].handle = client /\ isConnected /\ clientCount = 1

\* C17: every ChromeSession operation issues a tool call that carries the
\* session's tab id.
C17_OperationStep ==
  \A operation \in SessionOperations, tabId \in TabIds :
    DoSessionOperation(operation, tabId) =>
      /\ Len(pending') = Len(pending) + 1
      /\ pending'[Len(pending')].kind = "callTool"
      /\ pending'[Len(pending')].tabId = tabId
C17_OperationsForward == [][C17_OperationStep]_vars

\* C18: removeSession(name) never fails; a registered name is removed, so
\* that getSession(name) is absent afterwards, every other entry and the
\* counter are as before; for a name that is not registered the registry is
\* unchanged.
C18_RemoveStep ==
  \A name \in UserNames :
    DoRemoveSession(name) =>
      /\ lastOp'.err = NoError
      /\ getSession(Reg', name) = NULL
      /\ DOMAIN sessions' = DOMAIN sessions \ {name}
      /\ \A other \in DOMAIN sessions' : sessions'[other] = sessions[other]
      /\ sessionCounter' = sessionCounter
      /\ name \notin DOMAIN sessions => sessions' = sessions
C18_AfterRemove ==
  lastOp.op = "removeSession" => getSession(Reg, lastOp.name) = NULL /\ lastOp.err = NoError
C18_RemoveNeverFails == []C18_AfterRemove /\ [][C18_RemoveStep]_vars
\* removeSession has just removed one of two registered sessions, after
\* the counter had handed out a name.
C18_Witness ==
  /\ lastOp.op = "removeSession"
  /\ lastOp.name \notin DOMAIN sessions
  /\ sessions # EmptyMap
  /\ sessionCounter > 0
  /\ allocated >= 2

\* C19: clearAll leaves no session and a counter of zero: the count is 0,
\* getSession is absent for every name, and the next createSession without
\* a name registers "session-0".
C19_AfterClearAll ==
  lastOp.op = "clearAll" =>
    /\ getSessionCount(Reg) = 0
    /\ \A name \in UserNames \cup {ParallelName(1), AutoName(1)} : getSession(Reg, name) = NULL
    /\ sessionCounter = 0
    /\ LET r == createSession(Reg, NoName, "caller")
       IN /\ r.err = NoError
          /\ getSession(r.reg, AutoName(0)) = r.session
          /\ getSessionId(r.reg, r.session) = AutoName(0)
          /\ getSessionCount(r.reg) = 1
\* clearAll has just run on a registry whose counter had handed out names
\* (sessions had been constructed by then).
C19_Witness ==
  /\ lastOp.op = "clearAll"
  /\ allocated >= 2
  /\ \E c \in CallIds : UnderWay(c)

\* C20: every entry of the session map is keyed by the id of the session it
\* holds, and no two registered sessions share an id or an object.
C20_KeysAreIds ==
  /\ \A name \in DOMAIN sessions :
       sessions[name] \in DOMAIN heap /\ getSessionId(Reg, sessions[name]) = name
  /\ \A n1, n2 \in DOMAIN sessions :
       n1 # n2 => /\ sessions[n1] # sessions[n2]
                  /\ getSessionId(Reg, sessions[n1]) # getSessionId(Reg, sessions[n2])
\* Sessions made by createSession() with a generated name and by a fan-out
\* are registered side by side.
C20_Witness ==
  /\ \E name \in DOMAIN sessions : heap[sessions[name]].creator = "caller" /\ name = AutoName(0)
  /\ \E name \in DOMAIN sessions : heap[sessions[name]].creator # "caller"

\* The ChromeSession objects that are registered.
Registered(ss) == {ss[name] : name \in DOMAIN ss}

\* When a task of a runParallel call ends, by return or by throw, the
\* session its wrapper created is not registered afterwards, whatever has
\* become of the call by then.
C21_TaskEndStep ==
  \A c \in CallIds, k \in 1..MaxTasks, how \in TaskOutcomes :
    (calls[c].kind = "runParallel" /\ TaskSettles(c, k, how)) =>
      calls[c].tasks[k].session \notin Registered(sessions')
\* A running task stops running by its own end only: no failure of a
\* sibling, and no outcome taken by the caller, cancels it.
C21_NoCancelStep ==
  \A c \in CallIds, k \in 1..MaxTasks :
    (/\ k \in DOMAIN calls[c].tasks
     /\ calls[c].tasks[k].st = "running"
     /\ ~(k \in DOMAIN calls'[c].tasks /\ calls'[c].tasks[k].st = "running"))
      => \E how \in TaskOutcomes : TaskSettles(c, k, how)
\* C21: every ephemeral session of a runParallel call is removed when its
\* own task ends, also after a sibling has failed and the call has been
\* reported as failed; the siblings of a failed task are not cancelled.
C21_EphemeralRemovedAtTaskEnd == [][C21_TaskEndStep /\ C21_NoCancelStep]_vars
\* A task has just ended after its call's outcome had been taken, and no
\* session made by runParallel is registered.
C21_Witness ==
  /\ lastOp.op = "lateTask"
  /\ \E c \in CallIds : calls[c].kind = "over"
  /\ \A name \in DOMAIN sessions : heap[sessions[name]].creator # "runParallel"

\* C22: a runParallel call unregisters only sessions it created itself: the
\* call's start and the end of each of its tasks leave every other
\* registered session registered, as the same object.
C22_OwnOnlyStep ==
  /\ \A c \in CallIds, n \in 0..MaxTasks :
       DoRunParallel(c, n) =>
         \A name \in DOMAIN sessions :
           name \in DOMAIN sessions' /\ sessions'[name] = sessions[name]
  /\ \A c \in CallIds, k \in 1..MaxTasks, how \in TaskOutcomes :
       (calls[c].kind = "runParallel" /\ TaskSettles(c, k, how)) =>
         \A name \in DOMAIN sessions :
           sessions[name] # calls[c].tasks[k].session =>
             name \in DOMAIN sessions' /\ sessions'[name] = sessions[name]
C22_RemovesOnlyOwn == [][C22_OwnOnlyStep]_vars

\* C23: callTool invocations with no close and no connection failure in
\* between establish one connection: a callTool entered on a connection, or
\* while the first connection attempt is still under way, constructs no
\* further Client.
C23_OneConnectionStep ==
  \A toolName \in Tools, tabId \in TabIds :
    DoCallTool(toolName, tabId) =>
      /\ (isConnected /\ client # NULL) => clientCount' = clientCount
      /\ (/\ clientCount = 1 /\ client = 1
          /\ \A i \in 1..Len(pending) : pending[i].kind = "callTool"
          /\ \E i \in 1..Len(pending) : pending[i].phase = "connect")
           => clientCount' = 1
C23_OneConnection == [][C23_OneConnectionStep]_vars

\* A connection attempt that fails makes callTool return success = FALSE
\* with the failure's message; no further Client is constructed for that
\* call, and isConnected is false afterwards.
C27_ConnectFailsStep ==
  \A i \in 1..MaxPending :
    ConnectRejects(i) =>
      /\ clientOp'.op = "callTool" /\ ~clientOp'.threw
      /\ ~clientOp'.result.success /\ clientOp'.result.error = ConnectMessage
      /\ clientCount' = clientCount
      /\ ~isConnected'
      /\ Len(pending') = Len(pending) - 1
\* A callTool entered while isConnected is false makes a connection
\* attempt with a Client of its own.
C27_FreshAttemptStep ==
  \A toolName \in Tools, tabId \in TabIds :
    (~isConnected /\ DoCallTool(toolName, tabId)) =>
      /\ clientCount' = clientCount + 1
      /\ client' = clientCount'
      /\ pending'[Len(pending')].phase = "connect"
      /\ pending'[Len(pending')].handle = client'
\* C27: a callTool whose connection attempt fails returns a failure with
\* the message, attempts the connection once, and leaves the client
\* disconnected, so that the next callTool makes a fresh attempt.
C27_ConnectFailure == [][C27_ConnectFailsStep /\ C27_FreshAttemptStep]_vars
\* The callTool entered right after a connection failure was reported is
\* attempting a connection with a second Client.
C27_Witness ==
  \E i \in 1..Len(pending) :
    /\ pending[i].kind = "callTool" /\ pending[i].phase = "connect"
    /\ pending[i].after = "connect"
    /\ pending[i].handle = 2 /\ client = 2 /\ ~isConnected

\* C28: for a remote result without the error flag, data is the texts of
\* the text items, in order, joined with a newline, whenever the content
\* has a text item, and the raw content otherwise.
C28_DataStep ==
  \A i \in 1..MaxPending, content \in Contents :
    CallResolves(i, FALSE, content) =>
      /\ clientOp'.result.success
      /\ clientOp'.result.data =
           IF \E n \in 1..Len(content) : content[n].type = "text"
           THEN DataText(textContent(content))
           ELSE DataRaw(content)
C28_DataIsJoinedText == [][C28_DataStep]_vars

\* C24: every check cycle whose capture succeeds ends with its capture as
\* the stored baseline, whether it detected a dialog (saved the artifact
\* and invoked the callback) or not.
C24_BaselineStep ==
  /\ \A j \in 1..MaxInFlight, length \in Lengths :
       (CheckCaptured(j, length) /\ Len(checks') < Len(checks)) =>
         previousScreenshot' = Buffer(length)
  /\ \A j \in 1..MaxInFlight, how \in CallbackOutcomes :
       CheckSaved(j, how) => previousScreenshot' = checks[j].current
C24_CaptureBecomesBaseline == [][C24_BaselineStep]_vars

\* C25: a capture that fails inside a check cycle is caught by the cycle:
\* nothing is thrown, the flag, the timers, the baseline and the callback
\* are as before, so the timers go on starting check cycles.
C25_FailureStep ==
  \A j \in 1..MaxInFlight :
    CheckFails(j) =>
      /\ ~monOp'.threw
      /\ UNCHANGED <<screenshotInterval, diffThreshold, monitoring, monitorTimer,
                     previousScreenshot, detectionCallback, timers, timerCount, starts>>
      /\ checks' = RemoveAt(checks, j)
C25_FailureStaysInCycle == [][C25_FailureStep]_vars
\* A capture has just failed in a check cycle of a running monitor whose
\* timer is still scheduled.
C25_Witness ==
  /\ monOp.op = "checkForDialogFailed"
  /\ monitoring /\ monitorTimer \in DOMAIN timers
  /\ previousScreenshot # NoBuffer /\ detectionCallback # NoCallback

\* C26: stopMonitoring called while monitoring cancels the timer, clears
\* the baseline and the callback and sets monitoring to false, and no check
\* cycle starts while monitoring is false; called while idle it changes
\* nothing.
C26_StopStep ==
  /\ (monitoring /\ DoStopMonitoring) =>
       /\ ~monitoring' /\ monitorTimer' = NoTimer
       /\ previousScreenshot' = NoBuffer /\ detectionCallback' = NoCallback
       /\ monitorTimer # NoTimer => monitorTimer \notin DOMAIN timers'
  /\ (~monitoring /\ DoStopMonitoring) => UNCHANGED detectorVars
  /\ \A timer \in 1..MaxTimers : TimerTick(timer) => monitoring
C26_StopEndsChecks == [][C26_StopStep]_vars

\* C30: diffThreshold lies in [0,1] in every state, the one right after
\* construction included.
C30_ThresholdInRange == 0 <= diffThreshold /\ diffThreshold <= 100

\* The counter moves by createSession() and by clearAll only: up by one,
\* or back to zero.
C29_CounterStep ==
  /\ sessionCounter' # sessionCounter => DoCreateSession(NoName) \/ DoClearAll
  /\ sessionCounter' < sessionCounter => DoClearAll
  /\ DoCreateSession(NoName) => sessionCounter' = sessionCounter + 1
C29_RegistersStepOriginal ==
  DoCreateSession(NoName) =>
    /\ lastOp'.err = NoError
    /\ getSession(Reg', AutoName(sessionCounter)) = lastOp'.ret
    /\ lastOp'.ret \notin DOMAIN heap
    /\ getSessionId(Reg', lastOp'.ret) = AutoName(sessionCounter)
C29_RegistersStep ==
  DoCreateSession(NoName) =>
    IF AutoName(sessionCounter) \in DOMAIN sessions
    THEN lastOp'.err = DuplicateError(AutoName(sessionCounter)) /\ sessions' = sessions
    ELSE /\ lastOp'.err = NoError
         /\ getSession(Reg', AutoName(sessionCounter)) = lastOp'.ret
         /\ lastOp'.ret \notin DOMAIN heap
         /\ getSessionId(Reg', lastOp'.ret) = AutoName(sessionCounter)
\* C29 as stated: createSession without a name registers a session named
\* "session-" and the counter's value, and increments the counter by one;
\* the counter never decreases except through clearAll.
C29_AutoNameRegisters == [][C29_CounterStep /\ C29_RegistersStepOriginal]_vars
\* C29, amended: createSession without a name resolves the name "session-"
\* and the counter's value and increments the counter by one; it registers
\* a new session under that name unless one is registered under it already,
\* and then it fails with the duplicate error, the counter incremented all
\* the same; the counter never decreases except through clearAll.
C29_AutoNameResolves == [][C29_CounterStep /\ C29_RegistersStep]_vars
\* createSession() has just registered its second generated name.
C29_Witness ==
  /\ lastOp.op = "createSession" /\ lastOp.name = NoName /\ lastOp.err = NoError
  /\ sessionCounter = 2
  /\ getSession(Reg, AutoName(1)) = lastOp.ret

\* A createSession call of the caller that throws: what the claim says of
\* the registry, and what the code does to it.
C31_FailedCreateStepOriginal ==
  \A name \in UserNames \cup {NoName} :
    DoCreateSession(name) /\ lastOp'.err # NoError =>
      /\ sessions' = sessions
      /\ sessionCounter' = sessionCounter
C31_FailedCreateStep ==
  \A name \in UserNames \cup {NoName} :
    DoCreateSession(name) /\ lastOp'.err # NoError =>
      /\ sessions' = sessions
      /\ heap' = heap /\ allocated' = allocated
      /\ lastOp'.ret = NULL
      /\ IF name # NoName
         THEN /\ sessionCounter' = sessionCounter
              /\ lastOp'.err = DuplicateError(name)
         ELSE /\ sessionCounter' = sessionCounter + 1
              /\ lastOp'.err = DuplicateError(AutoName(sessionCounter))
\* C31 as stated: a createSession that fails with the duplicate-name error
\* leaves the session map and the name counter as they were, for a given
\* name and for a generated name that collides.
C31_FailedCreateLeavesRegistry == [][C31_FailedCreateStepOriginal]_vars
\* C31, amended: a createSession that fails with the duplicate-name error
\* leaves the session map as it was and constructs no session; the counter
\* is as it was when the name was given, and one higher when the name was
\* generated and collided.
C31_FailedCreateKeepsSessions == [][C31_FailedCreateStep]_vars
\* createSession() has just failed on a generated name that was taken.
C31_Witness ==
  /\ lastOp.op = "createSession" /\ lastOp.name = NoName
  /\ lastOp.err = DuplicateError(AutoName(0))
  /\ sessionCounter = 1
  /\ AutoName(0) \in DOMAIN sessions

\* C32: in every state of the monitor at most one recurring timer is
\* scheduled, and none is while monitoring is false.
C32_TimersFollowMonitoring ==
  /\ Cardinality(DOMAIN timers) <= 1
  /\ ~monitoring => DOMAIN timers = {}

\* A check cycle that was suspended when stopMonitoring ran resumes, with
\* its capture or after saveScreenshot.
C33_StoppedCycleStep ==
  /\ \A j \in 1..MaxInFlight, length \in Lengths :
       CheckCaptured(j, length) /\ checks[j].stopped =>
         /\ monOp'.invoked = NoCallback
         /\ previousScreenshot' = previousScreenshot
  /\ \A j \in 1..MaxInFlight, how \in CallbackOutcomes :
       CheckSaved(j, how) /\ checks[j].stopped =>
         /\ monOp'.invoked = NoCallback
         /\ previousScreenshot' = previousScreenshot
\* C33: a check cycle that was started before a stopMonitoring call neither
\* invokes a callback nor writes the baseline once stopMonitoring has run,
\* also when monitoring was started again before the cycle resumes.
C33_StoppedCycleHasNoEffect == [][C33_StoppedCycleStep]_vars

\* A runParallelWithSessions call never carries a duplicate-name failure,
\* and the tasks at the indices of one name were handed one object.
C34_SharedSession ==
  \A c \in CallIds :
    (calls[c].kind = "runParallelWithSessions" /\ UnderWay(c)) =>
      /\ ~IsDuplicate(calls[c].first)
      /\ ~IsDuplicate(calls[c].all.reason)
      /\ Matched(c) =>
           \A i \in 1..calls[c].n, k \in 1..calls[c].n :
             calls[c].names[i] = calls[c].names[k] =>
               /\ calls[c].tasks[i].session # NULL
               /\ calls[c].tasks[i].session = calls[c].tasks[k].session
\* The call constructs one session for each name of the list that is not
\* registered, however often the name occurs, registers it under that name
\* and starts every task with the object registered under its name.
C34_CallStep ==
  \A c \in CallIds, sessionNames \in NameLists, n \in 0..MaxTasks :
    (DoRunParallelWithSessions(c, sessionNames, n) /\ Len(sessionNames) = n) =>
      /\ allocated' - allocated =
           Cardinality({sessionNames[k] : k \in 1..n} \ DOMAIN sessions)
      /\ DOMAIN sessions' = DOMAIN sessions \cup {sessionNames[k] : k \in 1..n}
      /\ \A k \in 1..n :
           /\ calls'[c].tasks[k].st = "running"
           /\ calls'[c].tasks[k].session = sessions'[sessionNames[k]]
====
